---- MODULE Spec2Model ----
(***************************************************************************)
(* Model of the Apache Ranger Terraform provider: the ranger_policy        *)
(* resource (Create / Read / Update / Delete / ImportState), the           *)
(* ranger_policy data source, and the translation between the declarative  *)
(* model (RangerPolicyResourceModel) and the wire model (Policy).          *)
(*                                                                         *)
(* Three specifications share the variables:                               *)
(*   Spec    the resource lifecycle, one handler call per step;            *)
(*   DsSpec  the data source Read;                                         *)
(*   TrSpec  the two translation functions applied to bounded inputs.      *)
(***************************************************************************)
EXTENDS Integers, Sequences, FiniteSets, TLC

VARIABLES
    state,   \* declarative state of the resource: <<>> (none) or <<model>>
    op,      \* the handler that ran last
    diag,    \* its diagnostics: "ok" or "error"
    reqs,    \* the HTTP requests it issued, in order
    resp,    \* the HTTP outcome it received: <<>> or <<response>>
    plan,    \* the plan it was given: <<>> or <<model>>
    importID, \* the identifier ImportState was given: <<>> or <<id>>
    ds,      \* data source: configuration, state written, outcome
    tr       \* translator harness: input, intermediate and final value

vars == <<state, op, diag, reqs, resp, plan, importID, ds, tr>>

-----------------------------------------------------------------------------
(* Bounds of the model.                                                    *)

MaxPerms == 2       \* longest permission / access list
MaxItems == 1       \* longest policy_item / deny_item list
MaxResources == 2   \* longest declared resources list
MaxList == 2        \* longest list returned by the name search
MaxIdLen == 2       \* longest id string

-----------------------------------------------------------------------------
(* Generic helpers.                                                        *)

SeqsUpTo(S, n) == UNION {[1..k -> S] : k \in 0..n}

Range(s) == {s[i] : i \in DOMAIN s}

\* All enumerations of the finite set S without repetition.
Orders(S) ==
    {s \in [1..Cardinality(S) -> S] : \A i, j \in DOMAIN s : i # j => s[i] # s[j]}

\* The keys of a Go map visited in the iteration order ord (a sequence that
\* enumerates at least the keys of the map).
KeysInOrder(keys, ord) == SelectSeq(ord, LAMBDA k : k \in keys)

-----------------------------------------------------------------------------
(* terraform-plugin-framework values: a value is null, unknown or known;   *)
(* Value*() of a null or unknown value is the zero value.                  *)

StringValue(s) == [st |-> "known", val |-> s]
StringNull == [st |-> "null", val |-> ""]
BoolValue(b) == [st |-> "known", val |-> b]
BoolNull == [st |-> "null", val |-> FALSE]
Int64Value(i) == [st |-> "known", val |-> i]
Int64Null == [st |-> "null", val |-> 0]

\* An id is text the code formats and parses: a sequence of characters.
IDValue(cs) == [st |-> "known", val |-> cs]
IDNull == [st |-> "null", val |-> <<>>]
IDUnknown == [st |-> "unknown", val |-> <<>>]

IsNull(v) == v.st = "null"
ValueString(v) == v.val
ValueBool(v) == v.val
ValueInt64(v) == v.val

(* Go slices and maps: nil differs from empty (a nil slice is a null list  *)
(* in declarative state, an empty slice an empty list).                    *)
NilSlice == [nil |-> TRUE, elems |-> <<>>]
Slice(s) == [nil |-> FALSE, elems |-> s]
NilMap == [nil |-> TRUE, m |-> <<>>]
Map(f) == [nil |-> FALSE, m |-> f]
len(s) == Len(s.elems)
Keys(mp) == DOMAIN mp.m

(* Go interface{} values as they occur in a wire condition                 *)
(* (map[string]interface{}): a string, a float64 (a decoded JSON number),  *)
(* a []interface{} (a decoded JSON array), a []string (built by            *)
(* convertPolicyItemModel), or nil (key missing).                          *)
GoString(s) == [kind |-> "string", v |-> s, elems |-> <<>>]
GoFloat(s) == [kind |-> "float64", v |-> s, elems |-> <<>>]
GoIfaces(es) == [kind |-> "[]interface{}", v |-> "", elems |-> es]
GoStrings(ss) == [kind |-> "[]string", v |-> "", elems |-> [i \in DOMAIN ss |-> GoString(ss[i])]]
GoNil == [kind |-> "nil", v |-> "", elems |-> <<>>]

-----------------------------------------------------------------------------
(* fmt.Sprintf("%d", n) and fmt.Sscanf(s, "%d", &i) on ids.                *)

Digits == <<"0", "1", "2", "3", "4", "5", "6", "7", "8", "9">>
DigitChars == Range(Digits)
DigitVal(c) == (CHOOSE i \in DOMAIN Digits : Digits[i] = c) - 1

RECURSIVE FormatNat(_)
FormatNat(n) == IF n < 10 THEN <<Digits[n + 1]>>
                ELSE FormatNat(n \div 10) \o <<Digits[(n % 10) + 1]>>

\* fmt.Sprintf("%d", n)
FormatInt(n) == IF n < 0 THEN <<"-">> \o FormatNat(-n) ELSE FormatNat(n)

RECURSIVE SkipSpace(_)
SkipSpace(cs) == IF cs # <<>> /\ Head(cs) = " " THEN SkipSpace(Tail(cs)) ELSE cs

RECURSIVE DigitRun(_)
DigitRun(cs) == IF cs # <<>> /\ Head(cs) \in DigitChars
                THEN <<Head(cs)>> \o DigitRun(Tail(cs)) ELSE <<>>

RECURSIVE DigitsValue(_, _)
DigitsValue(ds_, acc) == IF ds_ = <<>> THEN acc
                         ELSE DigitsValue(Tail(ds_), acc * 10 + DigitVal(Head(ds_)))

(* parseInt64: Sscanf with "%d" skips leading blanks, takes an optional    *)
(* sign and then the longest run of digits; what follows the digits is     *)
(* left unread and is no error.  No digits: an error.                      *)
parseInt64WithSign(cs, neg) ==
    LET run == DigitRun(cs) IN
    IF run = <<>> THEN [err |-> TRUE, i |-> 0]
    ELSE [err |-> FALSE, i |-> IF neg THEN -DigitsValue(run, 0) ELSE DigitsValue(run, 0)]

parseInt64(s) ==
    LET cs == SkipSpace(s) IN
    IF cs = <<>> THEN [err |-> TRUE, i |-> 0]
    ELSE IF Head(cs) = "-" THEN parseInt64WithSign(Tail(cs), TRUE)
    ELSE IF Head(cs) = "+" THEN parseInt64WithSign(Tail(cs), FALSE)
    ELSE parseInt64WithSign(cs, FALSE)

-----------------------------------------------------------------------------
(* Model Translator: declarative model -> wire model.                      *)

\* The Go strings of a slice of types.String.
ValueStrings(sl) == [i \in DOMAIN sl.elems |-> ValueString(sl.elems[i])]

\* A principal list (users, groups, roles): left nil when empty or null.
convertPrincipalsModel(sl) ==
    IF len(sl) > 0 THEN Slice(ValueStrings(sl)) ELSE NilSlice

\* Mutant of permissionsToAccesses: IsAllowed left at its zero value.
permissionsToAccesses_unflagged(perms) ==
    IF len(perms) > 0
    THEN Slice([i \in DOMAIN perms.elems |->
                   [Type |-> ValueString(perms.elems[i]), IsAllowed |-> FALSE]])
    ELSE NilSlice

\* Every declared permission becomes one access with IsAllowed true.
permissionsToAccesses(perms) ==
    IF len(perms) > 0
    THEN Slice([i \in DOMAIN perms.elems |->
                   [Type |-> ValueString(perms.elems[i]), IsAllowed |-> TRUE]])
    ELSE NilSlice

\* The conditions mapping becomes a list of {type, values} maps, one per key,
\* in the iteration order of the Go map; the values are a []string.
conditionsToWire(conds, ord) ==
    LET ks == KeysInOrder(Keys(conds), ord) IN
    IF Cardinality(Keys(conds)) > 0
    THEN Slice([i \in DOMAIN ks |->
                   [type |-> GoString(ks[i]),
                    values |-> GoStrings(ValueStrings(conds.m[ks[i]]))]])
    ELSE NilSlice

convertPolicyItemModel(itemModel, ord) ==
    [Users |-> convertPrincipalsModel(itemModel.Users),
     Groups |-> convertPrincipalsModel(itemModel.Groups),
     Roles |-> convertPrincipalsModel(itemModel.Roles),
     Accesses |-> permissionsToAccesses(itemModel.Permissions),
     DelegateAdmin |-> ValueBool(itemModel.DelegateAdmin),
     Conditions |-> conditionsToWire(itemModel.Conditions, ord)]

\* Mutant of convertResourceModel: the two flags swapped.
convertResourceModel_swapped(res) ==
    [Values |-> Slice(ValueStrings(res.Values)),
     IsExclude |-> ValueBool(res.IsRecursive),
     IsRecursive |-> ValueBool(res.IsExclude)]

convertResourceModel(res) ==
    [Values |-> Slice(ValueStrings(res.Values)),
     IsExclude |-> ValueBool(res.IsExclude),
     IsRecursive |-> ValueBool(res.IsRecursive)]

\* policy.Resources[resType] = ... for each declared entry in order: a later
\* entry of the same type overwrites an earlier one.
resourcesToWire(resources) ==
    LET rs == resources.elems
        types == {ValueString(rs[i].Type) : i \in DOMAIN rs}
        last(t) == CHOOSE i \in DOMAIN rs :
                      /\ ValueString(rs[i].Type) = t
                      /\ \A j \in DOMAIN rs : ValueString(rs[j].Type) = t => j <= i
    IN Map([t \in types |-> convertResourceModel(rs[last(t)])])

\* A rule list: left nil when empty or null.  Item i iterates its conditions
\* in the order ords[base + i].
itemsToWire(items, ords, base) ==
    IF len(items) > 0
    THEN Slice([i \in DOMAIN items.elems |->
                   convertPolicyItemModel(items.elems[i], ords[base + i])])
    ELSE NilSlice

\* Mutant of convertModelToPolicy: the two rule lists exchanged.
convertModelToPolicy_swapped(model, ords) ==
    [ID |-> 0,
     Name |-> ValueString(model.Name),
     Service |-> ValueString(model.Service),
     Description |-> IF ~IsNull(model.Description)
                     THEN ValueString(model.Description) ELSE "",
     IsEnabled |-> ValueBool(model.IsEnabled),
     IsAuditEnabled |-> ValueBool(model.IsAuditEnabled),
     Resources |-> resourcesToWire(model.Resources),
     PolicyItems |-> itemsToWire(model.DenyItems, ords, len(model.PolicyItems)),
     DenyPolicyItems |-> itemsToWire(model.PolicyItems, ords, 0),
     PolicyType |-> ValueInt64(model.PolicyType)]

\* ords: the iteration orders of the condition maps, one per rule item.
convertModelToPolicy(model, ords) ==
    [ID |-> 0,
     Name |-> ValueString(model.Name),
     Service |-> ValueString(model.Service),
     Description |-> IF ~IsNull(model.Description)
                     THEN ValueString(model.Description) ELSE "",
     IsEnabled |-> ValueBool(model.IsEnabled),
     IsAuditEnabled |-> ValueBool(model.IsAuditEnabled),
     Resources |-> resourcesToWire(model.Resources),
     PolicyItems |-> itemsToWire(model.PolicyItems, ords, 0),
     DenyPolicyItems |-> itemsToWire(model.DenyItems, ords, len(model.PolicyItems)),
     PolicyType |-> ValueInt64(model.PolicyType)]

-----------------------------------------------------------------------------
(* Model Translator: wire model -> declarative model.                      *)

StringValues(sl) == Slice([i \in DOMAIN sl.elems |-> StringValue(sl.elems[i])])

\* Mutant of accessesToPermissions: every access becomes a permission.
accessesToPermissions_all(accesses) ==
    Slice([i \in DOMAIN accesses.elems |-> StringValue(accesses.elems[i].Type)])

\* Only the accesses with IsAllowed set become permissions.
accessesToPermissions(accesses) ==
    LET allowed == SelectSeq(accesses.elems, LAMBDA a : a.IsAllowed)
    IN Slice([i \in DOMAIN allowed |-> StringValue(allowed[i].Type)])

\* A condition is taken when its "type" is a string and its "values" a
\* []interface{}; of the values only the strings are kept.
conditionTaken(c) == c.type.kind = "string" /\ c.values.kind = "[]interface{}"

conditionValues(c) ==
    LET strs == SelectSeq(c.values.elems, LAMBDA e : e.kind = "string")
    IN Slice([i \in DOMAIN strs |-> StringValue(strs[i].v)])

\* policyItemModel.Conditions[condType] = values, in list order: the last
\* taken condition of a type wins.
conditionsToModel(conds) ==
    LET cs == conds.elems
        taken == {i \in DOMAIN cs : conditionTaken(cs[i])}
        types == {cs[i].type.v : i \in taken}
        last(t) == CHOOSE i \in taken :
                      /\ cs[i].type.v = t
                      /\ \A j \in taken : cs[j].type.v = t => j <= i
    IN Map([t \in types |-> conditionValues(cs[last(t)])])

convertPolicyItem(item) ==
    [Users |-> StringValues(item.Users),
     Groups |-> StringValues(item.Groups),
     Roles |-> StringValues(item.Roles),
     Permissions |-> accessesToPermissions(item.Accesses),
     DelegateAdmin |-> BoolValue(item.DelegateAdmin),
     Conditions |-> conditionsToModel(item.Conditions)]

convertResource(resType, resValue) ==
    [Type |-> StringValue(resType),
     Values |-> StringValues(resValue.Values),
     IsExclude |-> BoolValue(resValue.IsExclude),
     IsRecursive |-> BoolValue(resValue.IsRecursive)]

\* Mutant of resourcesToModel: every entry of the map emitted twice.
resourcesToModel_doubled(resources, ord) ==
    LET ks == KeysInOrder(Keys(resources), ord)
        once == [i \in DOMAIN ks |-> convertResource(ks[i], resources.m[ks[i]])]
    IN Slice(once \o once)

\* One declared resource per key of the map, in the iteration order ord.
resourcesToModel(resources, ord) ==
    LET ks == KeysInOrder(Keys(resources), ord)
    IN Slice([i \in DOMAIN ks |-> convertResource(ks[i], resources.m[ks[i]])])

\* Mutant of itemsToModel: a list without elements is left nil.
itemsToModel_nilWhenEmpty(items) ==
    IF len(items) = 0 THEN NilSlice
    ELSE Slice([i \in DOMAIN items.elems |-> convertPolicyItem(items.elems[i])])

itemsToModel(items) ==
    Slice([i \in DOMAIN items.elems |-> convertPolicyItem(items.elems[i])])

\* Mutant of convertPolicyToModel: an empty description is left null.
convertPolicyToModel_nullDescription(policy, ord) ==
    [ID |-> IDValue(FormatInt(policy.ID)),
     Name |-> StringValue(policy.Name),
     Service |-> StringValue(policy.Service),
     Description |-> IF policy.Description = "" THEN StringNull
                     ELSE StringValue(policy.Description),
     IsEnabled |-> BoolValue(policy.IsEnabled),
     IsAuditEnabled |-> BoolValue(policy.IsAuditEnabled),
     Resources |-> resourcesToModel(policy.Resources, ord),
     PolicyItems |-> itemsToModel(policy.PolicyItems),
     DenyItems |-> itemsToModel(policy.DenyPolicyItems),
     PolicyType |-> Int64Value(policy.PolicyType)]

\* ord: the iteration order of policy.Resources.
convertPolicyToModel(policy, ord) ==
    [ID |-> IDValue(FormatInt(policy.ID)),
     Name |-> StringValue(policy.Name),
     Service |-> StringValue(policy.Service),
     Description |-> StringValue(policy.Description),
     IsEnabled |-> BoolValue(policy.IsEnabled),
     IsAuditEnabled |-> BoolValue(policy.IsAuditEnabled),
     Resources |-> resourcesToModel(policy.Resources, ord),
     PolicyItems |-> itemsToModel(policy.PolicyItems),
     DenyItems |-> itemsToModel(policy.DenyPolicyItems),
     PolicyType |-> Int64Value(policy.PolicyType)]

-----------------------------------------------------------------------------
(* encoding/json on Policy.  A JSON document of a policy is a record whose *)
(* optional members are <<>> (absent or null) or <<value>>.  The members   *)
(* of a condition object are JSON values: string, number, array or null.   *)

JString(s) == [kind |-> "string", v |-> s, elems |-> <<>>]
JNumber(s) == [kind |-> "number", v |-> s, elems |-> <<>>]
JArray(es) == [kind |-> "array", v |-> "", elems |-> es]
JNull == [kind |-> "null", v |-> "", elems |-> <<>>]

\* json.Marshal of an interface{} value (array elements are scalars).
marshalScalar(g) ==
    IF g.kind = "string" THEN JString(g.v)
    ELSE IF g.kind = "float64" THEN JNumber(g.v)
    ELSE JNull

marshalValue(g) ==
    IF g.kind \in {"[]interface{}", "[]string"}
    THEN JArray([i \in DOMAIN g.elems |-> marshalScalar(g.elems[i])])
    ELSE marshalScalar(g)

\* A slice member tagged omitempty: left out when the slice has no element.
marshalOmitEmpty(sl) == IF len(sl) = 0 THEN <<>> ELSE <<sl.elems>>

\* A slice member without omitempty: null when nil, an array otherwise.
marshalSlice(sl) == IF sl.nil THEN <<>> ELSE <<sl.elems>>

marshalCondition(c) == [type |-> marshalValue(c.type), values |-> marshalValue(c.values)]

marshalPolicyItem(item) ==
    [users |-> marshalOmitEmpty(item.Users),
     groups |-> marshalOmitEmpty(item.Groups),
     roles |-> marshalOmitEmpty(item.Roles),
     accesses |-> marshalSlice(item.Accesses),
     delegateAdmin |-> item.DelegateAdmin,
     conditions |-> IF len(item.Conditions) = 0 THEN <<>>
                    ELSE <<[i \in DOMAIN item.Conditions.elems |->
                               marshalCondition(item.Conditions.elems[i])]>>]

marshalItems(items) ==
    IF len(items) = 0 THEN <<>>
    ELSE <<[i \in DOMAIN items.elems |-> marshalPolicyItem(items.elems[i])]>>

marshalPolicyResources(r) ==
    [values |-> marshalSlice(r.Values),
     isExcludeSupported |-> r.IsExclude,
     isRecursive |-> r.IsRecursive]

\* json.Marshal(policy): id and description are omitted when zero.
jsonMarshal(policy) ==
    [id |-> IF policy.ID = 0 THEN <<>> ELSE <<policy.ID>>,
     name |-> policy.Name,
     service |-> policy.Service,
     description |-> IF policy.Description = "" THEN <<>> ELSE <<policy.Description>>,
     isEnabled |-> policy.IsEnabled,
     isAuditEnabled |-> policy.IsAuditEnabled,
     resources |-> IF policy.Resources.nil THEN <<>>
                   ELSE <<[k \in Keys(policy.Resources) |->
                              marshalPolicyResources(policy.Resources.m[k])]>>,
     policyItems |-> marshalItems(policy.PolicyItems),
     denyPolicyItems |-> marshalItems(policy.DenyPolicyItems),
     policyType |-> policy.PolicyType]

\* Decoding into interface{}: a string, a float64, a []interface{} or nil.
decodeScalar(j) ==
    IF j.kind = "string" THEN GoString(j.v)
    ELSE IF j.kind = "number" THEN GoFloat(j.v)
    ELSE GoNil

decodeValue(j) ==
    IF j.kind = "array"
    THEN GoIfaces([i \in DOMAIN j.elems |-> decodeScalar(j.elems[i])])
    ELSE decodeScalar(j)

\* An absent or null array decodes to a nil slice.
decodeSlice(o) == IF o = <<>> THEN NilSlice ELSE Slice(o[1])

decodeCondition(c) == [type |-> decodeValue(c.type), values |-> decodeValue(c.values)]

decodePolicyItem(d) ==
    [Users |-> decodeSlice(d.users),
     Groups |-> decodeSlice(d.groups),
     Roles |-> decodeSlice(d.roles),
     Accesses |-> decodeSlice(d.accesses),
     DelegateAdmin |-> d.delegateAdmin,
     Conditions |-> IF d.conditions = <<>> THEN NilSlice
                    ELSE Slice([i \in DOMAIN d.conditions[1] |->
                                   decodeCondition(d.conditions[1][i])])]

decodeItems(o) ==
    IF o = <<>> THEN NilSlice
    ELSE Slice([i \in DOMAIN o[1] |-> decodePolicyItem(o[1][i])])

decodePolicyResources(d) ==
    [Values |-> decodeSlice(d.values),
     IsExclude |-> d.isExcludeSupported,
     IsRecursive |-> d.isRecursive]

\* json.Decode of a well-formed policy document into a Policy.
jsonDecode(doc) ==
    [ID |-> IF doc.id = <<>> THEN 0 ELSE doc.id[1],
     Name |-> doc.name,
     Service |-> doc.service,
     Description |-> IF doc.description = <<>> THEN "" ELSE doc.description[1],
     IsEnabled |-> doc.isEnabled,
     IsAuditEnabled |-> doc.isAuditEnabled,
     Resources |-> IF doc.resources = <<>> THEN NilMap
                   ELSE Map([k \in DOMAIN doc.resources[1] |->
                                decodePolicyResources(doc.resources[1][k])]),
     PolicyItems |-> decodeItems(doc.policyItems),
     DenyPolicyItems |-> decodeItems(doc.denyPolicyItems),
     PolicyType |-> doc.policyType]

-----------------------------------------------------------------------------
(* Bounded inputs: declarative policies.                                   *)

Names == {"foo", "foo_v2"}
Services == {"hdfs", "hive"}
Permissions == {"read", "write"}
ResTypes == {"path", "database"}
CondTypes == {"ip", "time"}

StringList(ss) == Slice([i \in DOMAIN ss |-> StringValue(ss[i])])

\* users / groups / roles as declared: unset, empty, or some names
PrincipalLists == {NilSlice, StringList(<<>>), StringList(<<"alice", "bob">>)}

PermissionLists == {StringList(ps) : ps \in SeqsUpTo(Permissions, MaxPerms)}

\* conditions as declared: unset, empty, one type, two types
ConditionMaps ==
    {NilMap,
     Map(<<>>),
     Map("ip" :> StringList(<<"10.0.0.1">>)),
     Map("ip" :> StringList(<<"10.0.0.1", "10.0.0.2">>) @@ "time" :> StringList(<<>>))}

ItemModel(users, perms, admin, conds) ==
    [Users |-> users, Groups |-> users, Roles |-> users,
     Permissions |-> perms, DelegateAdmin |-> BoolValue(admin), Conditions |-> conds]

BaseItemModel == ItemModel(StringList(<<"alice">>), StringList(<<"read">>), FALSE, NilMap)

\* Rule items: each aspect varied on its own.
ItemModels ==
    {ItemModel(u, StringList(<<"read">>), FALSE, NilMap) : u \in PrincipalLists}
    \cup {ItemModel(StringList(<<"alice">>), p, TRUE, NilMap) : p \in PermissionLists}
    \cup {ItemModel(StringList(<<"bob">>), StringList(<<"write", "read">>), FALSE, c) :
             c \in ConditionMaps}

ItemModelLists == {Slice(s) : s \in SeqsUpTo(ItemModels, MaxItems)}

\* deny_item is optional: unset, empty, or one rule
DenyModelLists == {NilSlice, Slice(<<>>), Slice(<<BaseItemModel>>)}

ResourceModel(type, values, exclude, recursive) ==
    [Type |-> StringValue(type), Values |-> StringList(values),
     IsExclude |-> BoolValue(exclude), IsRecursive |-> BoolValue(recursive)]

ResourceModels ==
    {ResourceModel("path", <<"/data">>, FALSE, TRUE),
     ResourceModel("path", <<"/tmp", "/var">>, TRUE, FALSE),
     ResourceModel("database", <<"sales">>, FALSE, FALSE)}

ResourceModelLists == {Slice(s) : s \in SeqsUpTo(ResourceModels, MaxResources)}

BaseResources == Slice(<<ResourceModel("path", <<"/data">>, FALSE, TRUE)>>)

PolicyModel(id, name, service, desc, flags, resources, items, deny) ==
    [ID |-> id, Name |-> StringValue(name), Service |-> StringValue(service),
     Description |-> desc,
     IsEnabled |-> BoolValue(flags[1]), IsAuditEnabled |-> BoolValue(flags[2]),
     Resources |-> resources, PolicyItems |-> items, DenyItems |-> deny,
     PolicyType |-> Int64Value(flags[3])]

Descriptions == {StringNull, StringValue(""), StringValue("finance")}
Flags == BOOLEAN \X BOOLEAN \X {0, 1}

\* Declarative policies handed to the translator.
TrModels ==
    {PolicyModel(id, "foo", "hdfs", d, <<TRUE, TRUE, 0>>, BaseResources, items, deny) :
        id \in {IDNull, IDValue(<<"7">>)}, d \in Descriptions,
        items \in ItemModelLists, deny \in DenyModelLists}
    \cup {PolicyModel(IDNull, "foo", "hive", StringValue("finance"), <<TRUE, TRUE, 0>>,
                      rs, Slice(<<BaseItemModel>>), NilSlice) : rs \in ResourceModelLists}
    \cup {PolicyModel(IDNull, "foo_v2", "hive", StringValue("finance"), f,
                      BaseResources, Slice(<<BaseItemModel>>), NilSlice) : f \in Flags}

-----------------------------------------------------------------------------
(* Bounded inputs: wire policies, as decoded from a response body.         *)

Accesses == {[Type |-> "read", IsAllowed |-> TRUE],
             [Type |-> "write", IsAllowed |-> TRUE],
             [Type |-> "read", IsAllowed |-> FALSE]}

AccessLists == {NilSlice} \cup {Slice(s) : s \in SeqsUpTo(Accesses, MaxPerms)}

WireCondition(type, values) == [type |-> type, values |-> values]

IpCondition == WireCondition(GoString("ip"), GoIfaces(<<GoString("10.0.0.1")>>))
TimeCondition == WireCondition(GoString("time"), GoIfaces(<<>>))

\* conditions on the wire: absent, well formed, a repeated type, malformed
WireConditionLists ==
    {NilSlice,
     Slice(<<IpCondition>>),
     Slice(<<IpCondition, TimeCondition>>),
     Slice(<<IpCondition, WireCondition(GoString("ip"), GoIfaces(<<GoString("10.0.0.9")>>))>>),
     Slice(<<WireCondition(GoFloat("4"), GoIfaces(<<GoString("10.0.0.1")>>))>>),
     Slice(<<WireCondition(GoString("ip"), GoString("10.0.0.1")), TimeCondition>>),
     Slice(<<WireCondition(GoString("ip"), GoIfaces(<<GoString("10.0.0.1"), GoFloat("4")>>))>>),
     Slice(<<WireCondition(GoString("ip"), GoNil)>>)}

WireItem(users, accesses, admin, conds) ==
    [Users |-> users, Groups |-> users, Roles |-> users,
     Accesses |-> accesses, DelegateAdmin |-> admin, Conditions |-> conds]

WirePrincipalLists == {NilSlice, Slice(<<>>), Slice(<<"alice", "bob">>)}

BaseWireItem == WireItem(Slice(<<"alice">>), Slice(<<[Type |-> "read", IsAllowed |-> TRUE]>>),
                         FALSE, NilSlice)

WireItems ==
    {WireItem(u, Slice(<<[Type |-> "read", IsAllowed |-> TRUE]>>), FALSE, NilSlice) :
        u \in WirePrincipalLists}
    \cup {WireItem(Slice(<<"alice">>), a, TRUE, NilSlice) : a \in AccessLists}
    \cup {WireItem(Slice(<<"bob">>), Slice(<<[Type |-> "write", IsAllowed |-> TRUE]>>), FALSE, c) :
             c \in WireConditionLists}

WireItemLists == {NilSlice} \cup {Slice(s) : s \in SeqsUpTo(WireItems, MaxItems)}

WireResource(values, exclude, recursive) ==
    [Values |-> values, IsExclude |-> exclude, IsRecursive |-> recursive]

WireResourceMaps ==
    {NilMap,
     Map(<<>>),
     Map("path" :> WireResource(Slice(<<"/data">>), FALSE, TRUE)),
     Map("path" :> WireResource(Slice(<<"/tmp", "/var">>), TRUE, FALSE)
         @@ "database" :> WireResource(Slice(<<"sales">>), FALSE, FALSE)),
     Map("database" :> WireResource(NilSlice, FALSE, FALSE))}

BaseWireResources == Map("path" :> WireResource(Slice(<<"/data">>), FALSE, TRUE))

WirePolicy(id, name, service, desc, flags, resources, items, deny) ==
    [ID |-> id, Name |-> name, Service |-> service, Description |-> desc,
     IsEnabled |-> flags[1], IsAuditEnabled |-> flags[2],
     Resources |-> resources, PolicyItems |-> items, DenyPolicyItems |-> deny,
     PolicyType |-> flags[3]]

WireDenyLists == {NilSlice, Slice(<<BaseWireItem>>)}

\* Wire policies handed to the translator.
TrPolicies ==
    {WirePolicy(id, "foo", "hdfs", d, <<TRUE, TRUE, 0>>, BaseWireResources, items, deny) :
        id \in {0, 7}, d \in {"", "finance"},
        items \in WireItemLists, deny \in WireDenyLists}
    \cup {WirePolicy(7, "foo", "hive", "finance", <<TRUE, TRUE, 0>>,
                     rs, Slice(<<BaseWireItem>>), NilSlice) : rs \in WireResourceMaps}
    \cup {WirePolicy(7, "foo_v2", "hive", "", f,
                     BaseWireResources, Slice(<<BaseWireItem>>), NilSlice) : f \in Flags}

\* Iteration orders of the Go maps: any enumeration of the keys of the map.
\* One order per rule item of the model (allow items, then deny items).
ItemCondOrders(model) ==
    LET items == model.PolicyItems.elems \o model.DenyItems.elems
        orders(i) == Orders(Keys(items[i].Conditions))
    IN {f \in [DOMAIN items -> UNION {orders(i) : i \in DOMAIN items}] :
           \A i \in DOMAIN items : f[i] \in orders(i)}

ResOrders(policy) == Orders(Keys(policy.Resources))

-----------------------------------------------------------------------------
(* Diagnostics of the translator: each conversion returns, next to its     *)
(* result, the diagnostics it collected.                                   *)

\* var diags diag.Diagnostics ... return policyItem, diags: nothing is ever
\* appended.
convertPolicyItemModelDiags(itemModel) == <<>>

convertPolicyItemDiags(item) == <<>>

RECURSIVE AppendAll(_)
\* diags.Append(itemDiags...) for each rule item in turn
AppendAll(itemDiags) ==
    IF itemDiags = <<>> THEN <<>> ELSE Head(itemDiags) \o AppendAll(Tail(itemDiags))

\* The resources loop appends nothing; the rule items contribute theirs.
convertModelToPolicyDiags(model) ==
    LET items == model.PolicyItems.elems \o model.DenyItems.elems
    IN AppendAll([i \in DOMAIN items |-> convertPolicyItemModelDiags(items[i])])

convertPolicyToModelDiags(policy) ==
    LET items == policy.PolicyItems.elems \o policy.DenyPolicyItems.elems
    IN AppendAll([i \in DOMAIN items |-> convertPolicyItemDiags(items[i])])

-----------------------------------------------------------------------------
(* The translator applied to bounded inputs (TrSpec).                      *)
(*   model -> wire [-> JSON -> wire] -> model    pc m0, m1, m2, m3, m4     *)
(*   wire -> model -> wire                       pc w0, w1, w2             *)
(* Between the two conversions the program always encodes the wire policy  *)
(* as JSON and decodes the response; the direct composition m1 -> m4 is    *)
(* what a call of one function on the other's result computes.             *)

TrIdle == [pc |-> "idle", model |-> <<>>, wire |-> <<>>, doc |-> <<>>,
           wire2 |-> <<>>, model2 |-> <<>>, diags |-> <<>>]

LifecycleIdle ==
    /\ state = <<>>
    /\ op = "none"
    /\ diag = "ok"
    /\ reqs = <<>>
    /\ resp = <<>>
    /\ plan = <<>>
    /\ importID = <<>>

DsIdle == [pc |-> "idle", config |-> <<>>, state |-> <<>>, diag |-> "ok",
           reqs |-> <<>>, resp |-> <<>>]

TrInit ==
    /\ LifecycleIdle
    /\ ds = DsIdle
    /\ \/ \E m \in TrModels : tr = [TrIdle EXCEPT !.pc = "m0", !.model = <<m>>]
       \/ \E w \in TrPolicies : tr = [TrIdle EXCEPT !.pc = "w0", !.wire = <<w>>]

TrUnchanged == UNCHANGED <<state, op, diag, reqs, resp, plan, importID, ds>>

TrModelToWire ==
    /\ tr.pc = "m0"
    /\ \E ords \in ItemCondOrders(tr.model[1]) :
          tr' = [tr EXCEPT !.pc = "m1",
                           !.wire = <<convertModelToPolicy(tr.model[1], ords)>>,
                           !.diags = convertModelToPolicyDiags(tr.model[1])]
    /\ TrUnchanged

TrMarshal ==
    /\ tr.pc = "m1"
    /\ tr' = [tr EXCEPT !.pc = "m2", !.doc = <<jsonMarshal(tr.wire[1])>>]
    /\ TrUnchanged

TrDecode ==
    /\ tr.pc = "m2"
    /\ tr' = [tr EXCEPT !.pc = "m3", !.wire2 = <<jsonDecode(tr.doc[1])>>]
    /\ TrUnchanged

\* back to the declarative model, from the decoded policy
TrDecodedToModel ==
    /\ tr.pc = "m3"
    /\ \E ord \in ResOrders(tr.wire2[1]) :
          tr' = [tr EXCEPT !.pc = "m4",
                           !.model2 = <<convertPolicyToModel(tr.wire2[1], ord)>>,
                           !.diags = convertPolicyToModelDiags(tr.wire2[1])]
    /\ TrUnchanged

\* back to the declarative model, directly from convertModelToPolicy's result
TrDirectToModel ==
    /\ tr.pc = "m1"
    /\ \E ord \in ResOrders(tr.wire[1]) :
          tr' = [tr EXCEPT !.pc = "m4",
                           !.model2 = <<convertPolicyToModel(tr.wire[1], ord)>>,
                           !.diags = convertPolicyToModelDiags(tr.wire[1])]
    /\ TrUnchanged

TrWireToModel ==
    /\ tr.pc = "w0"
    /\ \E ord \in ResOrders(tr.wire[1]) :
          tr' = [tr EXCEPT !.pc = "w1",
                           !.model = <<convertPolicyToModel(tr.wire[1], ord)>>,
                           !.diags = convertPolicyToModelDiags(tr.wire[1])]
    /\ TrUnchanged

TrModelBackToWire ==
    /\ tr.pc = "w1"
    /\ \E ords \in ItemCondOrders(tr.model[1]) :
          tr' = [tr EXCEPT !.pc = "w2",
                           !.wire2 = <<convertModelToPolicy(tr.model[1], ords)>>,
                           !.diags = convertModelToPolicyDiags(tr.model[1])]
    /\ TrUnchanged

TrNext ==
    \/ TrModelToWire
    \/ TrMarshal
    \/ TrDecode
    \/ TrDecodedToModel
    \/ TrDirectToModel
    \/ TrWireToModel
    \/ TrModelBackToWire

TrSpec == TrInit /\ [][TrNext]_vars

-----------------------------------------------------------------------------
(* Comparisons used by the translator properties.                          *)

AllItems(policyOrModel, allowField, denyField) ==
    policyOrModel[allowField].elems \o policyOrModel[denyField].elems

\* Declarative rule items agree: every attribute equal (null and empty
\* lists differ); conditions are mappings and carry no order.
ItemModelsEqual(a, b) ==
    /\ a.nil = b.nil
    /\ Len(a.elems) = Len(b.elems)
    /\ \A i \in DOMAIN a.elems :
          /\ a.elems[i].Users = b.elems[i].Users
          /\ a.elems[i].Groups = b.elems[i].Groups
          /\ a.elems[i].Roles = b.elems[i].Roles
          /\ a.elems[i].Permissions = b.elems[i].Permissions
          /\ a.elems[i].DelegateAdmin = b.elems[i].DelegateAdmin
          /\ a.elems[i].Conditions.nil = b.elems[i].Conditions.nil
          /\ Keys(a.elems[i].Conditions) = Keys(b.elems[i].Conditions)
          /\ \A k \in Keys(a.elems[i].Conditions) :
                a.elems[i].Conditions.m[k] = b.elems[i].Conditions.m[k]

\* Declarative policies agree on every declared attribute, resources taken
\* as a set.  The computed id is left out: it is not part of what is
\* declared, and the handlers attach it outside the translator.
ModelSetEqual(a, b) ==
    /\ a.Name = b.Name
    /\ a.Service = b.Service
    /\ a.Description = b.Description
    /\ a.IsEnabled = b.IsEnabled
    /\ a.IsAuditEnabled = b.IsAuditEnabled
    /\ a.PolicyType = b.PolicyType
    /\ a.Resources.nil = b.Resources.nil
    /\ Range(a.Resources.elems) = Range(b.Resources.elems)
    /\ ItemModelsEqual(a.PolicyItems, b.PolicyItems)
    /\ ItemModelsEqual(a.DenyItems, b.DenyItems)

\* The conditions of a wire item as a set of JSON {type, values} pairs.
ConditionSet(item) ==
    {<<marshalValue(c.type), marshalValue(c.values)>> : c \in Range(item.Conditions.elems)}

\* Wire rule lists agree, lists compared by their elements (nil and empty
\* alike) and conditions as a set.
WireItemsSame(a, b) ==
    /\ Len(a.elems) = Len(b.elems)
    /\ \A i \in DOMAIN a.elems :
          /\ a.elems[i].Users.elems = b.elems[i].Users.elems
          /\ a.elems[i].Groups.elems = b.elems[i].Groups.elems
          /\ a.elems[i].Roles.elems = b.elems[i].Roles.elems
          /\ a.elems[i].Accesses.elems = b.elems[i].Accesses.elems
          /\ a.elems[i].DelegateAdmin = b.elems[i].DelegateAdmin
          /\ len(a.elems[i].Conditions) = len(b.elems[i].Conditions)
          /\ ConditionSet(a.elems[i]) = ConditionSet(b.elems[i])

\* Wire policies agree on every field but the id.
WireSameButId(a, b) ==
    /\ a.Name = b.Name
    /\ a.Service = b.Service
    /\ a.Description = b.Description
    /\ a.IsEnabled = b.IsEnabled
    /\ a.IsAuditEnabled = b.IsAuditEnabled
    /\ a.PolicyType = b.PolicyType
    /\ Keys(a.Resources) = Keys(b.Resources)
    /\ \A k \in Keys(a.Resources) :
          /\ a.Resources.m[k].Values.elems = b.Resources.m[k].Values.elems
          /\ a.Resources.m[k].IsExclude = b.Resources.m[k].IsExclude
          /\ a.Resources.m[k].IsRecursive = b.Resources.m[k].IsRecursive
    /\ WireItemsSame(a.PolicyItems, b.PolicyItems)
    /\ WireItemsSame(a.DenyPolicyItems, b.DenyPolicyItems)

WireSame(a, b) == a.ID = b.ID /\ WireSameButId(a, b)

\* A wire rule item the declarative model can hold without loss: every
\* access allowed, every condition a string type with a list of strings,
\* no condition type twice.
RegularItem(item) ==
    LET cs == item.Conditions.elems IN
    /\ \A a \in Range(item.Accesses.elems) : a.IsAllowed
    /\ \A i \in DOMAIN cs :
          /\ cs[i].type.kind = "string"
          /\ cs[i].values.kind = "[]interface{}"
          /\ \A e \in Range(cs[i].values.elems) : e.kind = "string"
    /\ \A i, j \in DOMAIN cs : i # j => cs[i].type.v # cs[j].type.v

RegularPolicy(w) ==
    \A item \in Range(AllItems(w, "PolicyItems", "DenyPolicyItems")) : RegularItem(item)

-----------------------------------------------------------------------------
(* Translator properties (TrSpec).                                         *)

\* C7 (as claimed): converting a declarative policy to the wire model and
\* back yields a policy equal to it on every declared field, resources taken
\* as a set and conditions as a mapping.
C7_RoundTripModel ==
    tr.pc = "m4" => ModelSetEqual(tr.model[1], tr.model2[1])

\* C8 (as claimed): converting a wire policy to the declarative model and
\* back reproduces it, id included, up to the order of conditions.
C8_RoundTripWire ==
    tr.pc = "w2" => WireSame(tr.wire[1], tr.wire2[1])

\* C8 (amended): for a wire policy whose accesses are all allowed and whose
\* conditions are well formed with distinct types, wire -> declarative ->
\* wire reproduces every field but the id, which comes back as 0.
C8_RoundTripRegularWire ==
    (tr.pc = "w2" /\ RegularPolicy(tr.wire[1]))
        => (WireSameButId(tr.wire[1], tr.wire2[1]) /\ tr.wire2[1].ID = 0)

C8_Witness ==
    /\ tr.pc = "w2"
    /\ RegularPolicy(tr.wire[1])
    /\ tr.wire[1].ID = 7
    /\ \E item \in Range(tr.wire[1].PolicyItems.elems) : len(item.Conditions) = 2

\* C9: the accesses emitted for a rule item are one {permission, allowed}
\* entry per declared permission, in the declared order and nothing else,
\* and translating them back recovers the same set of permissions.
C9_PermissionsToAccesses ==
    LET declared == AllItems(tr.model[1], "PolicyItems", "DenyItems")
        emitted == AllItems(tr.wire[1], "PolicyItems", "DenyPolicyItems")
        decoded == AllItems(tr.wire2[1], "PolicyItems", "DenyPolicyItems")
        back == AllItems(tr.model2[1], "PolicyItems", "DenyItems")
    IN /\ tr.pc \in {"m1", "m2", "m3", "m4"} =>
            /\ Len(emitted) = Len(declared)
            /\ \A i \in DOMAIN declared :
                  /\ len(emitted[i].Accesses) = len(declared[i].Permissions)
                  /\ \A j \in DOMAIN declared[i].Permissions.elems :
                        /\ emitted[i].Accesses.elems[j].Type
                              = declared[i].Permissions.elems[j].val
                        /\ emitted[i].Accesses.elems[j].IsAllowed = TRUE
       /\ tr.pc = "m3" =>
            \A i \in DOMAIN declared : decoded[i].Accesses.elems = emitted[i].Accesses.elems
       /\ tr.pc = "m4" =>
            /\ Len(back) = Len(declared)
            /\ \A i \in DOMAIN declared :
                  {p.val : p \in Range(back[i].Permissions.elems)}
                     = {p.val : p \in Range(declared[i].Permissions.elems)}

C9_Witness ==
    /\ tr.pc = "m4"
    /\ tr.doc # <<>>
    /\ \E i \in DOMAIN tr.model[1].PolicyItems.elems :
          /\ ValueStrings(tr.model[1].PolicyItems.elems[i].Permissions) = <<"write", "read">>
          /\ ValueStrings(tr.model2[1].PolicyItems.elems[i].Permissions) = <<"write", "read">>

-----------------------------------------------------------------------------
(* Remote Policy Gateway: requests and responses.                          *)

StatusOK == 200
StatusCreated == 201
StatusNoContent == 204
StatusNotFound == 404

\* <endpoint>/service/public/v2/api/policy
PolicyURL == [path |-> "policy", id |-> <<>>, service |-> "", policyName |-> ""]
\* <endpoint>/service/public/v2/api/policy/<id>
PolicyIdURL(id) == [path |-> "policy/{id}", id |-> id, service |-> "", policyName |-> ""]
\* <endpoint>/service/public/v2/api/service/<service>/policy?policyName=<name>
ServicePolicyURL(service, name) ==
    [path |-> "service/{service}/policy", id |-> <<>>, service |-> service, policyName |-> name]

AuthHeader == <<"Authorization", "Basic">>
AcceptJSON == <<"Accept", "application/json">>
ContentTypeJSON == <<"Content-Type", "application/json">>

Request(method, url, headers, body) ==
    [method |-> method, url |-> url, headers |-> headers, body |-> body]

\* What client.Do returns: a transport error, or a status and a body; the
\* body is <<>> when it does not decode, else <<document>>.
TransportError == [err |-> TRUE, status |-> 0, body |-> <<>>]
Response(status, body) == [err |-> FALSE, status |-> status, body |-> body]

\* Policy documents a server may answer with: nothing ties them to the
\* request.
ServerPolicies ==
    {WirePolicy(7, "foo", "hdfs", "finance", <<TRUE, TRUE, 0>>, BaseWireResources,
                Slice(<<BaseWireItem>>), NilSlice),
     WirePolicy(12, "foo_v2", "hive", "", <<FALSE, TRUE, 1>>,
                Map("path" :> WireResource(Slice(<<"/tmp", "/var">>), TRUE, FALSE)
                    @@ "database" :> WireResource(Slice(<<"sales">>), FALSE, FALSE)),
                Slice(<<WireItem(Slice(<<"bob">>),
                                 Slice(<<[Type |-> "write", IsAllowed |-> TRUE],
                                         [Type |-> "read", IsAllowed |-> FALSE]>>),
                                 TRUE, Slice(<<IpCondition>>))>>),
                Slice(<<BaseWireItem>>)),
     WirePolicy(0, "foo", "hive", "", <<TRUE, FALSE, 0>>, NilMap, NilSlice, NilSlice)}

ServerDocs == {jsonMarshal(w) : w \in ServerPolicies}

Statuses == {StatusOK, StatusCreated, StatusNoContent, StatusNotFound, 500}

\* Responses to a request for one policy.
Responses ==
    {TransportError}
    \cup {Response(st, b) : st \in Statuses, b \in {<<>>} \cup {<<d>> : d \in ServerDocs}}

\* Responses to DELETE: the server sends no body, or some document.
DeleteResponses ==
    {TransportError}
    \cup {Response(st, b) : st \in Statuses,
                            b \in {<<>>, <<CHOOSE d \in ServerDocs : d.id = <<7>>>>}}

-----------------------------------------------------------------------------
(* Reconciler: the handlers of the ranger_policy resource.  Each returns   *)
(* the declarative state it leaves, its diagnostics ("ok" or the summary   *)
(* of the error), the requests it issued and the response it received.     *)

Outcome(st, dg, rq, rs) == [state |-> st, diag |-> dg, reqs |-> rq, resp |-> rs]

\* Mutant of CreateHandler: the state is written from the decoded response.
CreateHandler_echo(pl, ords, r) ==
    LET policy == convertModelToPolicy(pl, ords)
        request == Request("POST", PolicyURL, {AuthHeader, ContentTypeJSON, AcceptJSON},
                           <<jsonMarshal(policy)>>)
        failed == Outcome(<<>>, "Error Creating Ranger Policy", <<request>>, <<r>>)
    IN IF r.err THEN failed
       ELSE IF r.status # StatusOK /\ r.status # StatusCreated THEN failed
       ELSE IF r.body = <<>> THEN failed
       ELSE Outcome(<<convertPolicyToModel(jsonDecode(r.body[1]), <<"path", "database">>)>>,
                    "ok", <<request>>, <<r>>)

\* Mutant of CreateHandler: a transport failure is retried once.
CreateHandler_retry(pl, ords, r) ==
    LET policy == convertModelToPolicy(pl, ords)
        request == Request("POST", PolicyURL, {AuthHeader, ContentTypeJSON, AcceptJSON},
                           <<jsonMarshal(policy)>>)
        failed == Outcome(<<>>, "Error Creating Ranger Policy", <<request>>, <<r>>)
    IN IF r.err
       THEN Outcome(<<>>, "Error Creating Ranger Policy", <<request, request>>, <<r>>)
       ELSE IF r.status # StatusOK /\ r.status # StatusCreated THEN failed
       ELSE IF r.body = <<>> THEN failed
       ELSE LET createdPolicy == jsonDecode(r.body[1])
            IN Outcome(<<[pl EXCEPT !.ID = IDValue(FormatInt(createdPolicy.ID))]>>,
                       "ok", <<request>>, <<r>>)

\* Mutant of CreateHandler: the plan is stored as soon as the status is
\* good, before the body is decoded.
CreateHandler_storesBeforeDecode(pl, ords, r) ==
    LET policy == convertModelToPolicy(pl, ords)
        request == Request("POST", PolicyURL, {AuthHeader, ContentTypeJSON, AcceptJSON},
                           <<jsonMarshal(policy)>>)
        failed == Outcome(<<>>, "Error Creating Ranger Policy", <<request>>, <<r>>)
    IN IF r.err THEN failed
       ELSE IF r.status # StatusOK /\ r.status # StatusCreated THEN failed
       ELSE IF r.body = <<>>
       THEN Outcome(<<pl>>, "Error Creating Ranger Policy", <<request>>, <<r>>)
       ELSE LET createdPolicy == jsonDecode(r.body[1])
            IN Outcome(<<[pl EXCEPT !.ID = IDValue(FormatInt(createdPolicy.ID))]>>,
                       "ok", <<request>>, <<r>>)

\* Create: resp.State starts empty and is set only on success.
CreateHandler(pl, ords, r) ==
    LET policy == convertModelToPolicy(pl, ords)
        request == Request("POST", PolicyURL, {AuthHeader, ContentTypeJSON, AcceptJSON},
                           <<jsonMarshal(policy)>>)
        failed == Outcome(<<>>, "Error Creating Ranger Policy", <<request>>, <<r>>)
    IN IF r.err THEN failed
       ELSE IF r.status # StatusOK /\ r.status # StatusCreated THEN failed
       ELSE IF r.body = <<>> THEN failed
       ELSE LET createdPolicy == jsonDecode(r.body[1])
            IN Outcome(<<[pl EXCEPT !.ID = IDValue(FormatInt(createdPolicy.ID))]>>,
                       "ok", <<request>>, <<r>>)

\* Mutant of ReadHandler: no test for a null id.
ReadHandler_alwaysFetch(prior, ord, r) ==
    LET request == Request("GET", PolicyIdURL(ValueString(prior.ID)),
                           {AuthHeader, AcceptJSON}, <<>>)
        failed == Outcome(<<prior>>, "Error Reading Ranger Policy", <<request>>, <<r>>)
    IN IF r.err THEN failed
       ELSE IF r.status = StatusNotFound THEN Outcome(<<>>, "ok", <<request>>, <<r>>)
       ELSE IF r.status # StatusOK THEN failed
       ELSE IF r.body = <<>> THEN failed
       ELSE Outcome(<<convertPolicyToModel(jsonDecode(r.body[1]), ord)>>,
                    "ok", <<request>>, <<r>>)

\* Mutant of ReadHandler: 404 handled like any other unexpected status.
ReadHandler_notFoundFails(prior, ord, r) ==
    LET request == Request("GET", PolicyIdURL(ValueString(prior.ID)),
                           {AuthHeader, AcceptJSON}, <<>>)
        failed == Outcome(<<prior>>, "Error Reading Ranger Policy", <<request>>, <<r>>)
    IN IF IsNull(prior.ID) THEN Outcome(<<>>, "ok", <<>>, <<>>)
       ELSE IF r.err THEN failed
       ELSE IF r.status # StatusOK THEN failed
       ELSE IF r.body = <<>> THEN failed
       ELSE Outcome(<<convertPolicyToModel(jsonDecode(r.body[1]), ord)>>,
                    "ok", <<request>>, <<r>>)

\* Mutant of ReadHandler: a description the response lacks is kept from the
\* prior state.
ReadHandler_keepsDescription(prior, ord, r) ==
    LET request == Request("GET", PolicyIdURL(ValueString(prior.ID)),
                           {AuthHeader, AcceptJSON}, <<>>)
        failed == Outcome(<<prior>>, "Error Reading Ranger Policy", <<request>>, <<r>>)
    IN IF IsNull(prior.ID) THEN Outcome(<<>>, "ok", <<>>, <<>>)
       ELSE IF r.err THEN failed
       ELSE IF r.status = StatusNotFound THEN Outcome(<<>>, "ok", <<request>>, <<r>>)
       ELSE IF r.status # StatusOK THEN failed
       ELSE IF r.body = <<>> THEN failed
       ELSE LET model == convertPolicyToModel(jsonDecode(r.body[1]), ord)
            IN Outcome(<<IF r.body[1].description = <<>>
                         THEN [model EXCEPT !.Description = prior.Description]
                         ELSE model>>,
                       "ok", <<request>>, <<r>>)

\* Read: resp.State starts as the prior state.
ReadHandler(prior, ord, r) ==
    LET request == Request("GET", PolicyIdURL(ValueString(prior.ID)),
                           {AuthHeader, AcceptJSON}, <<>>)
        failed == Outcome(<<prior>>, "Error Reading Ranger Policy", <<request>>, <<r>>)
    IN IF IsNull(prior.ID) THEN Outcome(<<>>, "ok", <<>>, <<>>)
       ELSE IF r.err THEN failed
       ELSE IF r.status = StatusNotFound THEN Outcome(<<>>, "ok", <<request>>, <<r>>)
       ELSE IF r.status # StatusOK THEN failed
       ELSE IF r.body = <<>> THEN failed
       ELSE Outcome(<<convertPolicyToModel(jsonDecode(r.body[1]), ord)>>,
                    "ok", <<request>>, <<r>>)

\* Mutant of UpdateHandler: the state is written from the decoded response.
UpdateHandler_echo(prior, pl, ords, r) ==
    LET policyID == ValueString(pl.ID)
        parsed == parseInt64(policyID)
        policy == [convertModelToPolicy(pl, ords) EXCEPT !.ID = parsed.i]
        request == Request("PUT", PolicyIdURL(policyID),
                           {AuthHeader, ContentTypeJSON, AcceptJSON},
                           <<jsonMarshal(policy)>>)
        failed == Outcome(<<prior>>, "Error Updating Ranger Policy", <<request>>, <<r>>)
    IN IF parsed.err
       THEN Outcome(<<prior>>, "Error Updating Ranger Policy", <<>>, <<>>)
       ELSE IF r.err THEN failed
       ELSE IF r.status # StatusOK THEN failed
       ELSE IF r.body = <<>> THEN failed
       ELSE Outcome(<<convertPolicyToModel(jsonDecode(r.body[1]), <<"path", "database">>)>>,
                    "ok", <<request>>, <<r>>)

\* Update: resp.State starts as the prior state and is set to the plan on
\* success.
UpdateHandler(prior, pl, ords, r) ==
    LET policyID == ValueString(pl.ID)
        parsed == parseInt64(policyID)
        policy == [convertModelToPolicy(pl, ords) EXCEPT !.ID = parsed.i]
        request == Request("PUT", PolicyIdURL(policyID),
                           {AuthHeader, ContentTypeJSON, AcceptJSON},
                           <<jsonMarshal(policy)>>)
        failed == Outcome(<<prior>>, "Error Updating Ranger Policy", <<request>>, <<r>>)
    IN IF parsed.err
       THEN Outcome(<<prior>>, "Error Updating Ranger Policy", <<>>, <<>>)
       ELSE IF r.err THEN failed
       ELSE IF r.status # StatusOK THEN failed
       ELSE IF r.body = <<>> THEN failed
       ELSE Outcome(<<pl>>, "ok", <<request>>, <<r>>)

\* Mutant of DeleteHandler: the state is dropped before the status is looked at.
DeleteHandler_dropsFirst(prior, r) ==
    LET request == Request("DELETE", PolicyIdURL(ValueString(prior.ID)), {AuthHeader}, <<>>)
    IN IF r.err
       THEN Outcome(<<prior>>, "Error Deleting Ranger Policy", <<request>>, <<r>>)
       ELSE IF r.status # StatusOK /\ r.status # StatusNoContent
       THEN Outcome(<<>>, "Error Deleting Ranger Policy", <<request>>, <<r>>)
       ELSE Outcome(<<>>, "ok", <<request>>, <<r>>)

\* Mutant of DeleteHandler: success needs a response body that decodes.
DeleteHandler_needsBody(prior, r) ==
    LET request == Request("DELETE", PolicyIdURL(ValueString(prior.ID)), {AuthHeader}, <<>>)
        failed == Outcome(<<prior>>, "Error Deleting Ranger Policy", <<request>>, <<r>>)
    IN IF r.err THEN failed
       ELSE IF r.status # StatusOK /\ r.status # StatusNoContent THEN failed
       ELSE IF r.body = <<>> THEN failed
       ELSE Outcome(<<>>, "ok", <<request>>, <<r>>)

\* Mutant of DeleteHandler: a policy that is already absent counts as deleted.
DeleteHandler_absentOk(prior, r) ==
    LET request == Request("DELETE", PolicyIdURL(ValueString(prior.ID)), {AuthHeader}, <<>>)
        failed == Outcome(<<prior>>, "Error Deleting Ranger Policy", <<request>>, <<r>>)
    IN IF r.err THEN failed
       ELSE IF r.status = StatusNotFound THEN Outcome(<<>>, "ok", <<request>>, <<r>>)
       ELSE IF r.status # StatusOK /\ r.status # StatusNoContent THEN failed
       ELSE Outcome(<<>>, "ok", <<request>>, <<r>>)

\* Delete: the state is kept when the handler reports an error and removed
\* when it returns without one; the response body is never read.
DeleteHandler(prior, r) ==
    LET request == Request("DELETE", PolicyIdURL(ValueString(prior.ID)), {AuthHeader}, <<>>)
        failed == Outcome(<<prior>>, "Error Deleting Ranger Policy", <<request>>, <<r>>)
    IN IF r.err THEN failed
       ELSE IF r.status # StatusOK /\ r.status # StatusNoContent THEN failed
       ELSE Outcome(<<>>, "ok", <<request>>, <<r>>)

\* Mutant of ImportedModel: the identifier is read as a number and written
\* back in decimal.
ImportedModel_normalised(id) ==
    [ID |-> IDValue(FormatInt(parseInt64(id).i)), Name |-> StringNull,
     Service |-> StringNull, Description |-> StringNull, IsEnabled |-> BoolNull,
     IsAuditEnabled |-> BoolNull, Resources |-> NilSlice, PolicyItems |-> NilSlice,
     DenyItems |-> NilSlice, PolicyType |-> Int64Null]

\* ImportState: the identifier becomes the id; every other attribute is null.
ImportedModel(id) ==
    [ID |-> IDValue(id), Name |-> StringNull, Service |-> StringNull,
     Description |-> StringNull, IsEnabled |-> BoolNull, IsAuditEnabled |-> BoolNull,
     Resources |-> NilSlice, PolicyItems |-> NilSlice, DenyItems |-> NilSlice,
     PolicyType |-> Int64Null]

ImportStateHandler(id) == Outcome(<<ImportedModel(id)>>, "ok", <<>>, <<>>)

-----------------------------------------------------------------------------
(* The declarative engine, as far as the schema fixes it.                  *)

\* Mutant of RequiresReplace: the plan modifier left out.
RequiresReplace_never(priorValue, plannedValue) == FALSE

\* service: stringplanmodifier.RequiresReplace(): a planned value that
\* differs from the prior one makes the engine destroy and create instead
\* of calling Update.
RequiresReplace(priorValue, plannedValue) == priorValue # plannedValue

\* id: computed, stringplanmodifier.UseStateForUnknown(): the plan carries
\* the prior id unless that is null, and then the id stays unknown.
UseStateForUnknown(priorValue) == IF IsNull(priorValue) THEN IDUnknown ELSE priorValue

\* Configurations: name and service required; the rest optional.
Configs ==
    {PolicyModel(IDUnknown, "foo", s, StringNull, <<TRUE, TRUE, 0>>, BaseResources,
                 Slice(<<BaseItemModel>>), NilSlice) : s \in Services}
    \cup {PolicyModel(IDUnknown, "foo_v2", s, StringValue("finance"), <<TRUE, FALSE, 1>>,
                      Slice(<<ResourceModel("database", <<"sales">>, FALSE, FALSE),
                              ResourceModel("path", <<"/data">>, FALSE, TRUE)>>),
                      Slice(<<ItemModel(StringList(<<"bob">>), StringList(<<"write", "read">>),
                                        TRUE,
                                        Map("ip" :> StringList(<<"10.0.0.1">>)
                                            @@ "time" :> StringList(<<>>)))>>),
                      Slice(<<BaseItemModel>>)) : s \in Services}

IdChars == {"0", "7", "x"}
IdStrings == SeqsUpTo(IdChars, MaxIdLen)

\* Prior state the engine may hand over: none, or a record a state file
\* holds (its id null, numeric, or other text).
PriorIDs == {IDNull, IDValue(<<"7">>), IDValue(<<"7", "x">>), IDValue(<<"x">>)}
PriorStates == {[c EXCEPT !.ID = id] : c \in Configs, id \in PriorIDs}

Init ==
    /\ state \in {<<>>} \cup {<<m>> : m \in PriorStates}
    /\ op = "none"
    /\ diag = "ok"
    /\ reqs = <<>>
    /\ resp = <<>>
    /\ plan = <<>>
    /\ importID = <<>>
    /\ ds = DsIdle
    /\ tr = TrIdle

\* One handler call: its outcome becomes the next state.
Finish(name, pl, outcome) ==
    \E out \in {outcome} :
        /\ op' = name
        /\ plan' = pl
        /\ state' = out.state
        /\ diag' = out.diag
        /\ reqs' = out.reqs
        /\ resp' = out.resp
        /\ importID' = <<>>
        /\ UNCHANGED <<ds, tr>>

\* The destroy half of a replacement succeeded: the engine goes on to create
\* the planned resource.
ReplacePending == op = "Delete" /\ diag = "ok" /\ plan # <<>>

\* The orders in which Read may iterate the resources of the policy in r.
ReadOrders(r) == IF r.body = <<>> THEN {<<>>} ELSE ResOrders(jsonDecode(r.body[1]))

Create ==
    /\ state = <<>>
    /\ \E c \in Configs, r \in Responses :
          /\ ReplacePending => c = plan[1]
          /\ \E ords \in ItemCondOrders(c) :
               Finish("Create", <<c>>, CreateHandler(c, ords, r))

Read ==
    /\ state # <<>>
    /\ \E r \in Responses :
          \E ord \in ReadOrders(r) : Finish("Read", <<>>, ReadHandler(state[1], ord, r))

Update ==
    /\ state # <<>>
    /\ \E c \in Configs :
          LET pl == [c EXCEPT !.ID = UseStateForUnknown(state[1].ID)] IN
          /\ ~RequiresReplace(state[1].Service, pl.Service)
          /\ pl # state[1]
          /\ \E ords \in ItemCondOrders(pl), r \in Responses :
                Finish("Update", <<pl>>, UpdateHandler(state[1], pl, ords, r))

\* Destroy: the resource is no longer configured.
Delete ==
    /\ state # <<>>
    /\ \E r \in DeleteResponses : Finish("Delete", <<>>, DeleteHandler(state[1], r))

\* Replacement: the planned service differs from the prior one, so the engine
\* calls Delete on the prior state and, once that succeeded, Create on the
\* plan (whose id is unknown again).
Replace ==
    /\ state # <<>>
    /\ \E c \in Configs :
          /\ RequiresReplace(state[1].Service, c.Service)
          /\ \E r \in DeleteResponses : Finish("Delete", <<c>>, DeleteHandler(state[1], r))

\* terraform import <address> <id>: req.ID is the identifier as typed.
ImportState ==
    /\ state = <<>>
    /\ \E id \in IdStrings :
          \E out \in {ImportStateHandler(id)} :
             /\ op' = "ImportState"
             /\ plan' = <<>>
             /\ importID' = <<id>>
             /\ state' = out.state
             /\ diag' = out.diag
             /\ reqs' = out.reqs
             /\ resp' = out.resp
             /\ UNCHANGED <<ds, tr>>

Next ==
    \/ Create
    \/ Read
    \/ Update
    \/ Delete
    \/ Replace
    \/ ImportState

Spec == Init /\ [][Next]_vars

-----------------------------------------------------------------------------
(* The ranger_policy data source (DsSpec).                                 *)

Lookup(policy, dg, rq, rs) == [policy |-> policy, diag |-> dg, reqs |-> rq, resp |-> rs]

\* Mutant of getPolicyByID: a policy that is absent is no error, as in the
\* resource's Read.
getPolicyByID_absentOk(id, r) ==
    LET request == Request("GET", PolicyIdURL(id), {AuthHeader, AcceptJSON}, <<>>)
        failed == Lookup(<<>>, "Error Reading Ranger Policy", <<request>>, <<r>>)
    IN IF r.err THEN failed
       ELSE IF r.status = StatusNotFound THEN Lookup(<<>>, "ok", <<request>>, <<r>>)
       ELSE IF r.status # StatusOK THEN failed
       ELSE IF r.body = <<>> THEN failed
       ELSE Lookup(<<jsonDecode(r.body[1])>>, "ok", <<request>>, <<r>>)

getPolicyByID(id, r) ==
    LET request == Request("GET", PolicyIdURL(id), {AuthHeader, AcceptJSON}, <<>>)
        failed == Lookup(<<>>, "Error Reading Ranger Policy", <<request>>, <<r>>)
    IN IF r.err THEN failed
       ELSE IF r.status = StatusNotFound
       THEN Lookup(<<>>, "Ranger Policy Not Found", <<request>>, <<r>>)
       ELSE IF r.status # StatusOK THEN failed
       ELSE IF r.body = <<>> THEN failed
       ELSE Lookup(<<jsonDecode(r.body[1])>>, "ok", <<request>>, <<r>>)

\* Mutant of firstNamed: the first policy of the list, whatever its name.
firstNamed_any(policies, name) == IF policies = <<>> THEN 0 ELSE 1

\* for _, policy := range policies { if policy.Name == name { return } }:
\* the index of the first policy with that name, 0 when there is none.
firstNamed(policies, name) ==
    LET hits == {i \in DOMAIN policies : policies[i].Name = name}
    IN IF hits = {} THEN 0 ELSE CHOOSE i \in hits : \A j \in hits : i <= j

\* The body of r is <<>> when it does not decode, else <<list of documents>>.
getPolicyByServiceAndName(service, name, r) ==
    LET request == Request("GET", ServicePolicyURL(service, name),
                           {AuthHeader, AcceptJSON}, <<>>)
        failed == Lookup(<<>>, "Error Reading Ranger Policy", <<request>>, <<r>>)
    IN IF r.err THEN failed
       ELSE IF r.status # StatusOK THEN failed
       ELSE IF r.body = <<>> THEN failed
       ELSE LET policies == [i \in DOMAIN r.body[1] |-> jsonDecode(r.body[1][i])]
                hit == firstNamed(policies, name)
            IN IF hit # 0 THEN Lookup(<<policies[hit]>>, "ok", <<request>>, <<r>>)
               ELSE Lookup(<<>>, "Ranger Policy Not Found", <<request>>, <<r>>)

\* Configurations of the data source: name and service required, id optional.
DsConfigs ==
    {[ID |-> id, Name |-> StringValue(n), Service |-> StringValue(sv)] :
        id \in {IDNull, IDValue(<<"7">>), IDValue(<<"x">>)}, n \in Names, sv \in Services}

\* Responses of the name search: a list of policy documents.
ListResponses ==
    {TransportError}
    \cup {Response(st, b) : st \in Statuses,
                            b \in {<<>>} \cup {<<l>> : l \in SeqsUpTo(ServerDocs, MaxList)}}

DsInit ==
    /\ LifecycleIdle
    /\ tr = TrIdle
    /\ \E c \in DsConfigs : ds = [DsIdle EXCEPT !.pc = "configured", !.config = <<c>>]

\* Read, after the lookup: the state is written only when no error was
\* reported, and then from the translated policy.
DsFinish(pc, found, ord) ==
    \E out \in {found} :
        /\ ds' = [pc |-> pc, config |-> ds.config,
                  state |-> IF out.policy = <<>> THEN <<>>
                            ELSE <<convertPolicyToModel(out.policy[1], ord)>>,
                  diag |-> out.diag, reqs |-> out.reqs, resp |-> out.resp]
        /\ UNCHANGED <<state, op, diag, reqs, resp, plan, importID, tr>>

FoundOrders(found) ==
    IF found.policy = <<>> THEN {<<>>} ELSE ResOrders(found.policy[1])

\* Read with an id configured
DsReadByID ==
    /\ ds.pc = "configured"
    /\ ~IsNull(ds.config[1].ID)
    /\ \E r \in Responses :
          \E found \in {getPolicyByID(ValueString(ds.config[1].ID), r)} :
             \E ord \in FoundOrders(found) : DsFinish("byID", found, ord)

\* Read with no id configured
DsReadByName ==
    /\ ds.pc = "configured"
    /\ IsNull(ds.config[1].ID)
    /\ \E r \in ListResponses :
          \E found \in {getPolicyByServiceAndName(ValueString(ds.config[1].Service),
                                                  ValueString(ds.config[1].Name), r)} :
             \E ord \in FoundOrders(found) : DsFinish("byName", found, ord)

DsNext ==
    \/ DsReadByID
    \/ DsReadByName

DsSpec == DsInit /\ [][DsNext]_vars

\* C3: the name search returns a policy only when its name is exactly the
\* requested one; a decoded list holding no policy of that name (names that
\* extend it, the empty list) ends in "Ranger Policy Not Found" and no policy.
C3_ExactNameMatch ==
    ds.pc = "byName" =>
        LET requested == ValueString(ds.config[1].Name)
            r == ds.resp[1]
            decoded == ~r.err /\ r.status = StatusOK /\ r.body # <<>>
        IN /\ ds.state # <<>> =>
                /\ decoded
                /\ ds.diag = "ok"
                /\ ValueString(ds.state[1].Name) = requested
                /\ \E i \in DOMAIN r.body[1] :
                      /\ r.body[1][i].name = requested
                      /\ ds.state[1].ID = IDValue(FormatInt(jsonDecode(r.body[1][i]).ID))
           /\ (decoded /\ \A i \in DOMAIN r.body[1] : r.body[1][i].name # requested) =>
                /\ ds.state = <<>>
                /\ ds.diag = "Ranger Policy Not Found"

C3_Witness ==
    /\ ds.pc = "byName"
    /\ ValueString(ds.config[1].Name) = "foo"
    /\ ~ds.resp[1].err
    /\ ds.resp[1].status = StatusOK
    /\ ds.resp[1].body # <<>>
    /\ Len(ds.resp[1].body[1]) = 1
    /\ ds.resp[1].body[1][1].name = "foo_v2"
    /\ ds.state = <<>>
    /\ ds.diag = "Ranger Policy Not Found"

-----------------------------------------------------------------------------
(* Properties of the resource handlers (Spec).  A step of Spec is one      *)
(* handler call: unprimed variables are the call's prior state, primed     *)
(* ones its outcome.                                                       *)

\* C1: a Read whose prior state has a null id issues no HTTP request and
\* removes the resource from state, without an error.
C1_ReadWithoutId ==
    [][(op' = "Read" /\ state # <<>> /\ IsNull(state[1].ID))
          => (reqs' = <<>> /\ resp' = <<>> /\ state' = <<>> /\ diag' = "ok")]_vars

C1_Witness == op = "Read" /\ reqs = <<>> /\ state = <<>> /\ diag = "ok"

\* C2: a Read that sent its request and got 404 removes the resource and
\* reports no error; one that got 500 reports an error and leaves the prior
\* state as it was.
C2_ReadNotFoundAndError ==
    [][(op' = "Read" /\ resp' # <<>> /\ ~resp'[1].err)
          => /\ resp'[1].status = StatusNotFound => (state' = <<>> /\ diag' = "ok")
             /\ resp'[1].status = 500 => (diag' # "ok" /\ state' = state /\ state' # <<>>)]_vars

C2_Witness ==
    /\ op = "Read"
    /\ resp # <<>>
    /\ ~resp[1].err
    /\ resp[1].status = StatusNotFound
    /\ resp[1].body # <<>>
    /\ state = <<>>
    /\ diag = "ok"

\* The id a response document carries (0 when it carries none).
ResponseId(r) == IF r.body[1].id = <<>> THEN 0 ELSE r.body[1].id[1]

\* C4: after a successful Create the state is the plan in every attribute but
\* the id, and the id is the decimal text of the id in the response; nothing
\* else of the response reaches the state.
C4_CreateKeepsPlan ==
    (op = "Create" /\ diag = "ok") =>
        /\ state # <<>> /\ plan # <<>> /\ resp # <<>> /\ resp[1].body # <<>>
        /\ \A f \in DOMAIN plan[1] \ {"ID"} : state[1][f] = plan[1][f]
        /\ state[1].ID.st = "known"
        /\ state[1].ID.val = FormatInt(ResponseId(resp[1]))

C4_Witness ==
    /\ op = "Create"
    /\ diag = "ok"
    /\ resp[1].body[1].service # ValueString(plan[1].Service)
    /\ resp[1].body[1].description # <<>>
    /\ IsNull(state[1].Description)
    /\ state[1].ID = IDValue(<<"7">>)

\* C5: after a successful Update the state is the plan, whatever the response
\* body holds.
C5_UpdateKeepsPlan ==
    (op = "Update" /\ diag = "ok") => (plan # <<>> /\ state = plan)

C5_Witness ==
    /\ op = "Update"
    /\ diag = "ok"
    /\ resp[1].body[1].name # ValueString(plan[1].Name)
    /\ resp[1].body[1].id # <<>>
    /\ FormatInt(resp[1].body[1].id[1]) # ValueString(plan[1].ID)
    /\ state = plan

\* C6: no PUT carries a service other than the one of the prior state: a plan
\* that changes the service is applied as Delete followed by Create.
C6_NoServiceChangeInPlace ==
    [][\A i \in DOMAIN reqs' :
          reqs'[i].method = "PUT"
             => /\ state # <<>>
                /\ op' = "Update"
                /\ reqs'[i].body[1].service = ValueString(state[1].Service)]_vars

\* the destroy half of a replacement: the plan changes the service, and the
\* prior resource has been deleted (no PUT was sent) with the plan still to be
\* created
C6_Witness ==
    /\ op = "Delete"
    /\ plan # <<>>
    /\ diag = "ok"
    /\ state = <<>>
    /\ Len(reqs) = 1
    /\ reqs[1].method = "DELETE"

\* C10: an Update or a Delete that reports an error leaves the state as it
\* was.
C10_FailureKeepsState ==
    [][(op' \in {"Update", "Delete"} /\ diag' # "ok") => (state' = state /\ state' # <<>>)]_vars

C10_Witness ==
    /\ op = "Delete"
    /\ diag # "ok"
    /\ resp # <<>>
    /\ resp[1].status = StatusNotFound
    /\ state # <<>>

-----------------------------------------------------------------------------
(* The provider as a whole: one run is either the life of a ranger_policy  *)
(* resource or a read of the ranger_policy data source (ProviderSpec).     *)

ProviderInit == Init \/ DsInit

ProviderNext ==
    \/ (ds = DsIdle /\ Next)
    \/ DsNext

ProviderSpec == ProviderInit /\ [][ProviderNext]_vars

\* A response that reports an error: a 4xx or 5xx status.
ErrorStatus(status) == status >= 400

\* The original statement of C11: every operation sends at most one request,
\* and after a transport failure or any error response it ends with a
\* reported failure.
C11_OneRequestFailureReported ==
    /\ Len(reqs) <= 1
    /\ Len(ds.reqs) <= 1
    /\ (resp # <<>> /\ (resp[1].err \/ ErrorStatus(resp[1].status))) => diag # "ok"
    /\ (ds.resp # <<>> /\ (ds.resp[1].err \/ ErrorStatus(ds.resp[1].status)))
          => ds.diag # "ok"

\* C11: every invocation of Create, Read, Update, Delete or a data-source
\* lookup sends at most one HTTP request; after a transport failure or an
\* error response it ends with a reported failure and that one request only,
\* except that the resource Read answered 404 ends without a diagnostic (and
\* removes the resource).
C11_OneRequestPerOperation ==
    /\ Len(reqs) <= 1
    /\ Len(ds.reqs) <= 1
    /\ (resp # <<>> /\ (resp[1].err \/ ErrorStatus(resp[1].status)))
          => /\ Len(reqs) = 1
             /\ diag = "ok" <=> (op = "Read" /\ ~resp[1].err
                                   /\ resp[1].status = StatusNotFound)
    /\ (ds.resp # <<>> /\ (ds.resp[1].err \/ ErrorStatus(ds.resp[1].status)))
          => (Len(ds.reqs) = 1 /\ ds.diag # "ok" /\ ds.state = <<>>)

\* a Create that met a transport failure: one request, an error reported
C11_Witness ==
    /\ op = "Create"
    /\ resp # <<>>
    /\ resp[1].err
    /\ Len(reqs) = 1
    /\ diag = "Error Creating Ranger Policy"

\* C12: a Delete that got a response succeeds exactly when its status is 200
\* or 204, whether or not a body came with it; on success the state is
\* removed and the DELETE is the only request sent; with any other status an
\* error is reported.
C12_DeleteSuccessStatuses ==
    (op = "Delete" /\ resp # <<>> /\ ~resp[1].err) =>
        /\ diag = "ok" <=> resp[1].status \in {StatusOK, StatusNoContent}
        /\ diag = "ok" => /\ state = <<>>
                          /\ Len(reqs) = 1
                          /\ reqs[1].method = "DELETE"
                          /\ reqs[1].body = <<>>
        /\ diag # "ok" => (diag = "Error Deleting Ranger Policy" /\ state # <<>>)

\* a Delete answered 204 with no body has removed the resource
C12_Witness ==
    /\ op = "Delete"
    /\ resp # <<>>
    /\ ~resp[1].err
    /\ resp[1].status = StatusNoContent
    /\ resp[1].body = <<>>
    /\ diag = "ok"
    /\ state = <<>>

\* C13: a Create, Update or Delete answered 404 reports an error and leaves
\* the declarative state as it was: nothing is created, nothing removed.
C13_NotFoundIsFailure ==
    [][(op' \in {"Create", "Update", "Delete"} /\ resp' # <<>> /\ ~resp'[1].err
           /\ resp'[1].status = StatusNotFound)
          => (diag' # "ok" /\ state' = state)]_vars

\* deleting a policy the server no longer has: an error, the state kept
C13_Witness ==
    /\ op = "Delete"
    /\ plan = <<>>
    /\ resp # <<>>
    /\ ~resp[1].err
    /\ resp[1].status = StatusNotFound
    /\ resp[1].body = <<>>
    /\ diag = "Error Deleting Ranger Policy"
    /\ state # <<>>
    /\ state[1].ID = IDValue(<<"7">>)

\* C14: create, get by id, replace and search by name each take a response
\* with status 200 or 201 and a body that decodes as success.
C14_SuccessOn200Or201 ==
    /\ (op \in {"Create", "Read", "Update"} /\ resp # <<>> /\ ~resp[1].err
          /\ resp[1].status \in {StatusOK, StatusCreated} /\ resp[1].body # <<>>)
         => diag = "ok"
    /\ (ds.pc \in {"byID", "byName"} /\ ds.resp # <<>> /\ ~ds.resp[1].err
          /\ ds.resp[1].status \in {StatusOK, StatusCreated} /\ ds.resp[1].body # <<>>)
         => ds.diag \in {"ok", "Ranger Policy Not Found"}

-----------------------------------------------------------------------------
(* Translator properties, wire -> declarative and declarative -> wire.     *)

\* The rule items of a wire policy and of a declarative policy, allow items
\* first.
WireItemsOf(policy) == policy.PolicyItems.elems \o policy.DenyPolicyItems.elems
ModelItemsOf(model) == model.PolicyItems.elems \o model.DenyItems.elems

\* C15: wire -> declarative gives each rule item, as permissions, the type
\* names of its accesses with isAllowed true, in wire order, and nothing else;
\* the accesses with isAllowed false are dropped and no diagnostic is returned.
C15_AllowedAccessesOnly ==
    tr.pc = "w1" =>
        /\ tr.diags = <<>>
        /\ Len(ModelItemsOf(tr.model[1])) = Len(WireItemsOf(tr.wire[1]))
        /\ \A n \in DOMAIN WireItemsOf(tr.wire[1]) :
              LET acc == WireItemsOf(tr.wire[1])[n].Accesses.elems
                  perms == ModelItemsOf(tr.model[1])[n].Permissions.elems
                  allowed == {i \in DOMAIN acc : acc[i].IsAllowed}
                  rank(i) == Cardinality({j \in allowed : j <= i})
              IN /\ Len(perms) = Cardinality(allowed)
                 /\ \A i \in allowed : perms[rank(i)] = StringValue(acc[i].Type)

\* accesses [read/denied, write/allowed] have become permissions ["write"]
C15_Witness ==
    /\ tr.pc = "w1"
    /\ tr.wire[1].PolicyItems.elems # <<>>
    /\ tr.wire[1].PolicyItems.elems[1].Accesses.elems =
          <<[Type |-> "read", IsAllowed |-> FALSE], [Type |-> "write", IsAllowed |-> TRUE]>>
    /\ tr.model[1].PolicyItems.elems[1].Permissions = StringList(<<"write">>)
    /\ tr.diags = <<>>

\* The wire rule list holds the declared rules, one for one and in order:
\* the same principals, the declared permissions as access types, every
\* access allowed.
RulesEmitted(declared, emitted) ==
    /\ Len(emitted.elems) = Len(declared.elems)
    /\ \A i \in DOMAIN declared.elems :
          /\ emitted.elems[i].Users.elems = ValueStrings(declared.elems[i].Users)
          /\ emitted.elems[i].DelegateAdmin = ValueBool(declared.elems[i].DelegateAdmin)
          /\ Len(emitted.elems[i].Accesses.elems) = Len(declared.elems[i].Permissions.elems)
          /\ \A k \in DOMAIN emitted.elems[i].Accesses.elems :
                /\ emitted.elems[i].Accesses.elems[k].IsAllowed = TRUE
                /\ emitted.elems[i].Accesses.elems[k].Type =
                      ValueString(declared.elems[i].Permissions.elems[k])

Malformed(c) ==
    \/ c.type.kind # "string"
    \/ c.values.kind # "[]interface{}"
    \/ \E i \in DOMAIN c.values.elems : c.values.elems[i].kind # "string"

\* C17: wire -> declarative skips a condition holding a malformed non-string
\* value: its type is no key of the declarative conditions (unless another
\* condition of the item has that type), and no diagnostic is returned.
C17_MalformedConditionSkipped ==
    tr.pc = "w1" =>
        /\ tr.diags = <<>>
        /\ \A n \in DOMAIN WireItemsOf(tr.wire[1]) :
              LET cs == WireItemsOf(tr.wire[1])[n].Conditions.elems
                  conds == ModelItemsOf(tr.model[1])[n].Conditions
              IN \A i \in DOMAIN cs :
                    (/\ Malformed(cs[i])
                     /\ cs[i].type.kind = "string"
                     /\ \A j \in DOMAIN cs \ {i} : cs[j].type # cs[i].type)
                       => cs[i].type.v \notin Keys(conds)

\* The types of a declared resource list.
DeclaredTypes(resources) ==
    {ValueString(resources.elems[i].Type) : i \in DOMAIN resources.elems}

\* C18: declarative -> wire of a resource list that declares one type twice
\* returns an error diagnostic.
C18_DuplicateTypeRejected ==
    (tr.pc = "m1"
       /\ Cardinality(DeclaredTypes(tr.model[1].Resources)) < len(tr.model[1].Resources))
      => tr.diags # <<>>

\* The declared records are the entries of the mapping, one for one, each
\* carrying its key as type.
OneRecordPerEntry(resources, declared) ==
    /\ len(declared) = Cardinality(Keys(resources))
    /\ DeclaredTypes(declared) = Keys(resources)
    /\ \A i \in DOMAIN declared.elems :
          ValueStrings(declared.elems[i].Values)
             = resources.m[ValueString(declared.elems[i].Type)].Values.elems

\* C19: the wire resources mapping produced from a declared list has one
\* entry per distinct declared type, and wire -> declarative emits one record
\* per entry of the mapping, with the key as its type.
C19_OneEntryPerType ==
    /\ tr.pc \in {"m1", "m2", "m4"} =>
          Keys(tr.wire[1].Resources) = DeclaredTypes(tr.model[1].Resources)
    /\ tr.pc = "w1" => OneRecordPerEntry(tr.wire[1].Resources, tr.model[1].Resources)
    /\ (tr.pc = "m4" /\ tr.doc = <<>>) =>
          OneRecordPerEntry(tr.wire[1].Resources, tr.model2[1].Resources)
    /\ (tr.pc = "m4" /\ tr.doc # <<>>) =>
          OneRecordPerEntry(tr.wire2[1].Resources, tr.model2[1].Resources)

\* "path" declared twice: one entry on the wire, one record back
C19_Witness ==
    /\ tr.pc = "m4"
    /\ len(tr.model[1].Resources) = 2
    /\ DeclaredTypes(tr.model[1].Resources) = {"path"}
    /\ Keys(tr.wire[1].Resources) = {"path"}
    /\ len(tr.model2[1].Resources) = 1
    /\ tr.model2[1].Resources.elems[1].Type = StringValue("path")

\* C20: wire -> declarative of a policy whose policyItems (denyPolicyItems) is
\* empty or absent gives policy_item (deny_item) as an empty list, not null.
C20_EmptyRuleListsNotNull ==
    tr.pc = "w1" =>
        /\ len(tr.wire[1].PolicyItems) = 0 => tr.model[1].PolicyItems = Slice(<<>>)
        /\ len(tr.wire[1].DenyPolicyItems) = 0 => tr.model[1].DenyItems = Slice(<<>>)

\* both lists absent on the wire, both empty and not null in the model
C20_Witness ==
    /\ tr.pc = "w1"
    /\ tr.wire[1].PolicyItems = NilSlice
    /\ tr.wire[1].DenyPolicyItems = NilSlice
    /\ ~tr.model[1].PolicyItems.nil
    /\ ~tr.model[1].DenyItems.nil
    /\ len(tr.model[1].PolicyItems) = 0
    /\ len(tr.model[1].DenyItems) = 0

\* C21: wire -> declarative of a policy without description gives the
\* description as the empty string, known and not null; declarative -> wire
\* of a null description and of an empty one give the same wire value: the
\* empty description, left out of the JSON document.
C21_AbsentDescriptionIsEmpty ==
    /\ (tr.pc = "w1" /\ tr.wire[1].Description = "")
          => tr.model[1].Description = StringValue("")
    /\ (tr.pc = "m4" /\ tr.doc # <<>> /\ tr.doc[1].description = <<>>)
          => (tr.wire2[1].Description = "" /\ tr.model2[1].Description = StringValue(""))
    /\ (tr.pc \in {"m1", "m2"}
          /\ tr.model[1].Description \in {StringNull, StringValue("")})
          => tr.wire[1].Description = ""
    /\ (tr.pc = "m2" /\ tr.model[1].Description \in {StringNull, StringValue("")})
          => tr.doc[1].description = <<>>

\* a null description went out absent and came back as the empty string
C21_Witness ==
    /\ tr.pc = "m4"
    /\ IsNull(tr.model[1].Description)
    /\ tr.doc # <<>>
    /\ tr.doc[1].description = <<>>
    /\ tr.model2[1].Description = StringValue("")

-----------------------------------------------------------------------------
(* Reconciler properties: import, refresh, identity.                       *)

\* C22: ImportState writes the identifier it was given, unchanged and
\* whatever it is, as the id of the state, sends no request and reports no
\* error; no other attribute is set.
C22_ImportPassesIdThrough ==
    op = "ImportState" =>
        /\ importID # <<>>
        /\ state # <<>>
        /\ state[1].ID.st = "known"
        /\ ValueString(state[1].ID) = importID[1]
        /\ \A f \in DOMAIN state[1] \ {"ID", "Resources", "PolicyItems", "DenyItems"} :
              state[1][f].st = "null"
        /\ state[1].Resources.nil /\ state[1].PolicyItems.nil /\ state[1].DenyItems.nil
        /\ reqs = <<>>
        /\ resp = <<>>
        /\ diag = "ok"

\* "7x", no policy id at all, imported as it is
C22_Witness ==
    /\ op = "ImportState"
    /\ importID = <<(<<"7", "x">>)>>
    /\ state[1].ID = IDValue(<<"7", "x">>)
    /\ reqs = <<>>

\* C23: after a successful Read that fetched the policy, the state is the
\* translation of the decoded response, attribute for attribute: the id, the
\* name, the service, the description and the flags are those of the
\* document, whatever the prior state held.
C23_ReadRefreshesAll ==
    (op = "Read" /\ diag = "ok" /\ state # <<>>) =>
        /\ resp # <<>> /\ ~resp[1].err /\ resp[1].status = StatusOK /\ resp[1].body # <<>>
        /\ \E ord \in ReadOrders(resp[1]) :
              state[1] = convertPolicyToModel(jsonDecode(resp[1].body[1]), ord)
        /\ state[1].ID = IDValue(FormatInt(ResponseId(resp[1])))
        /\ state[1].Name = StringValue(resp[1].body[1].name)
        /\ state[1].Service = StringValue(resp[1].body[1].service)
        /\ state[1].Description =
              StringValue(IF resp[1].body[1].description = <<>> THEN ""
                          ELSE resp[1].body[1].description[1])
        /\ state[1].IsEnabled = BoolValue(resp[1].body[1].isEnabled)
        /\ state[1].IsAuditEnabled = BoolValue(resp[1].body[1].isAuditEnabled)
        /\ state[1].PolicyType = Int64Value(resp[1].body[1].policyType)
        /\ DeclaredTypes(state[1].Resources)
              = (IF resp[1].body[1].resources = <<>> THEN {}
                 ELSE DOMAIN resp[1].body[1].resources[1])

\* the document of policy foo/hive, which has no description and no rules,
\* has replaced a state: nothing of a configuration is left
C23_Witness ==
    /\ op = "Read"
    /\ diag = "ok"
    /\ state # <<>>
    /\ resp[1].body[1].description = <<>>
    /\ resp[1].body[1].policyItems = <<>>
    /\ state[1].Description = StringValue("")
    /\ state[1].PolicyItems = Slice(<<>>)
    /\ state[1].Resources = Slice(<<>>)
    /\ state[1].ID = IDValue(<<"0">>)

\* C24: every request of every operation carries the Authorization header
\* and Accept: application/json; POST and PUT carry Content-Type:
\* application/json as well.
C24_RequestHeaders ==
    \A rq \in Range(reqs) \cup Range(ds.reqs) :
        /\ AuthHeader \in rq.headers
        /\ AcceptJSON \in rq.headers
        /\ rq.method \in {"POST", "PUT"} => ContentTypeJSON \in rq.headers

\* A decimal numeral: an optional sign and digits, nothing else.
Numeral(cs) ==
    LET body == IF cs # <<>> /\ Head(cs) \in {"+", "-"} THEN Tail(cs) ELSE cs
    IN body # <<>> /\ \A i \in DOMAIN body : body[i] \in DigitChars

\* The policy id a numeral denotes.
NumeralValue(cs) == parseInt64(cs).i

\* C25: a Read or an Update that succeeds and leaves a state leaves the id
\* it found in the state, and every request of Read, Update and Delete is
\* addressed to that id; this for a server that answers a request for a
\* policy with the policy of that number.
C25_IdImmutable ==
    [][(/\ op' \in {"Read", "Update", "Delete"}
        /\ state # <<>>
        /\ ~IsNull(state[1].ID))
          => /\ \A i \in DOMAIN reqs' : reqs'[i].url.id = ValueString(state[1].ID)
             /\ (/\ op' \in {"Read", "Update"}
                 /\ diag' = "ok"
                 /\ state' # <<>>
                 /\ Numeral(ValueString(state[1].ID))
                 /\ ResponseId(resp'[1]) = NumeralValue(ValueString(state[1].ID)))
                   => state'[1].ID = state[1].ID]_vars

\* C26: an Update whose id is not a decimal numeral reports an error, sends no
\* request and leaves the state as it was.
C26_UnparseableIdRejected ==
    [][(op' = "Update" /\ ~Numeral(ValueString(plan'[1].ID)))
          => (diag' # "ok" /\ reqs' = <<>> /\ state' = state)]_vars

\* C27: the path of a PUT names, as a decimal numeral, the id its body
\* carries; the body of a POST carries no id.
C27_PathIdIsBodyId ==
    \A rq \in Range(reqs) :
        /\ rq.method = "PUT" =>
              /\ rq.body[1].id = (IF NumeralValue(rq.url.id) = 0 THEN <<>>
                                  ELSE <<NumeralValue(rq.url.id)>>)
              /\ Numeral(rq.url.id)
        /\ rq.method = "POST" => rq.body[1].id = <<>>

-----------------------------------------------------------------------------
(* The resource against a remote service that keeps its word (RemoteSpec): *)
(* the service stores a posted policy as sent, gives it an id, answers the *)
(* POST with the stored document and every later GET with that same        *)
(* document.                                                               *)

RemotePlans == Configs \cup {[m EXCEPT !.ID = IDUnknown] : m \in TrModels}

\* ids the service hands out
RemoteIds == {7, 12}

\* The document the service stores for a POST, and answers with.
StoredDocument(posted, id) == [posted EXCEPT !.id = <<id>>]

RemoteInit ==
    /\ LifecycleIdle
    /\ ds = DsIdle
    /\ tr = TrIdle

RemoteCreate ==
    /\ state = <<>>
    /\ op = "none"
    /\ \E c \in RemotePlans, id \in RemoteIds :
          \E ords \in ItemCondOrders(c) :
             LET posted == jsonMarshal(convertModelToPolicy(c, ords))
             IN Finish("Create", <<c>>,
                       CreateHandler(c, ords, Response(StatusOK,
                                                       <<StoredDocument(posted, id)>>)))

\* The refresh that follows: GET answered with the stored document, which
\* is the one the last response carried.
RemoteRead ==
    /\ state # <<>>
    /\ op = "Create"
    /\ diag = "ok"
    /\ \E r \in {Response(StatusOK, resp[1].body)} :
          \E ord \in ReadOrders(r) : Finish("Read", <<>>, ReadHandler(state[1], ord, r))

RemoteNext ==
    \/ RemoteCreate
    \/ RemoteRead

RemoteSpec == RemoteInit /\ [][RemoteNext]_vars

\* C28: against such a service the Read that follows a successful Create
\* leaves the state Create wrote: the same id and every declared attribute
\* equal, resources and conditions taken as sets.
C28_NoDriftAfterCreate ==
    [][(op = "Create" /\ op' = "Read")
          => /\ diag' = "ok"
             /\ state' # <<>>
             /\ state'[1].ID = state[1].ID
             /\ ModelSetEqual(state[1], state'[1])]_vars

-----------------------------------------------------------------------------
(* Data source properties.                                                 *)

\* C29: the data source looks the policy up by id whenever an id is
\* configured, with a request that names neither service nor name, and by
\* service and name otherwise; in both paths a 404, and in the name search a
\* list without the name, ends in an error with no state written.
C29_DataSourceLookup ==
    ds.pc \in {"byID", "byName"} =>
        /\ ds.pc = "byID" <=> ~IsNull(ds.config[1].ID)
        /\ Len(ds.reqs) = 1
        /\ ds.reqs[1].method = "GET"
        /\ ds.pc = "byID" =>
              ds.reqs[1].url = [path |-> "policy/{id}", id |-> ValueString(ds.config[1].ID),
                                service |-> "", policyName |-> ""]
        /\ ds.pc = "byName" =>
              ds.reqs[1].url = [path |-> "service/{service}/policy", id |-> <<>>,
                                service |-> ValueString(ds.config[1].Service),
                                policyName |-> ValueString(ds.config[1].Name)]
        /\ (~ds.resp[1].err /\ ds.resp[1].status = StatusNotFound)
              => (ds.diag # "ok" /\ ds.state = <<>>)
        /\ (ds.pc = "byID" /\ ~ds.resp[1].err /\ ds.resp[1].status = StatusNotFound)
              => ds.diag = "Ranger Policy Not Found"
        /\ ds.diag # "ok" => ds.state = <<>>
        /\ ds.diag = "ok" => ds.state # <<>>

\* the lookup by id of a policy the service does not have
C29_Witness ==
    /\ ds.pc = "byID"
    /\ ds.config[1].ID = IDValue(<<"7">>)
    /\ ~ds.resp[1].err
    /\ ds.resp[1].status = StatusNotFound
    /\ ds.diag = "Ranger Policy Not Found"
    /\ ds.state = <<>>

-----------------------------------------------------------------------------
(* Create and partial failure.                                             *)

\* C30: Create leaves a state exactly when it reports no error, and then the
\* POST was answered 200 or 201 with a body that decoded; a Create that
\* reports an error leaves no state and so no id, also when the status was
\* good and only the body failed to decode.
C30_CreateAllOrNothing ==
    op = "Create" =>
        /\ state # <<>> <=> diag = "ok"
        /\ diag = "ok" =>
              /\ Len(reqs) = 1 /\ reqs[1].method = "POST"
              /\ ~resp[1].err
              /\ resp[1].status \in {StatusOK, StatusCreated}
              /\ resp[1].body # <<>>
              /\ state[1].ID.st = "known"
        /\ (resp # <<>> /\ (resp[1].err \/ resp[1].body = <<>>
                              \/ resp[1].status \notin {StatusOK, StatusCreated}))
              => (diag = "Error Creating Ranger Policy" /\ state = <<>>)

\* the service accepted the POST (201), the body did not decode: an error,
\* and nothing recorded
C30_Witness ==
    /\ op = "Create"
    /\ resp # <<>>
    /\ ~resp[1].err
    /\ resp[1].status = StatusCreated
    /\ resp[1].body = <<>>
    /\ diag = "Error Creating Ranger Policy"
    /\ state = <<>>

====
